---- MODULE Spec2Model ----
(***************************************************************************)
(* The fake Bot API server of telegram/fake.cpp: the scripted Test Cases,  *)
(* the request matcher, the request handler that serialises calls with the *)
(* Test Case mutex, and the FakeServer lifecycle.                          *)
(***************************************************************************)
EXTENDS Integers, Sequences, FiniteSets, TLC

\* ------------------------------------------------------------------ bounds

\* Number of HTTP server worker threads that may run FakeHandler::handleRequest.
NumThreads == 2

\* Requests accepted over the server's life: at most Len(Expectations) + MaxExtra.
MaxExtra == 1

\* Once MaxFails failures are recorded the client sends only the request the
\* script expects next.
MaxFails == 1

\* Query parameters per request where ExpectURI is applied on its own.
MaxParams == 3

Threads == 1..NumThreads

\* --------------------------------------------------------------- scenarios

Scenarios ==
  {"Single getMe", "getMe error handling",
   "Single getUpdates and send messages", "Handle getUpdates offset"}

\* The Expectations vector each constructor sets.
ExpectationsOf(sc) ==
  CASE sc = "Single getMe" ->
         <<"Client sends getMe request">>
    [] sc = "getMe error handling" ->
         <<"Client sends getMe request and receives Internal Server error",
           "Client sends getMe request and receives error json">>
    [] sc = "Single getUpdates and send messages" ->
         <<"Client sends getUpdates request", "Client sends message \"Hi!\"",
           "Client sends reply \"Reply\"", "Client sends reply \"Reply\"">>
    [] sc = "Handle getUpdates offset" ->
         <<"Client sends request and receives 2 messages",
           "Client sends request with correct offset and receives 0 messages",
           "Client sends request with current offset and receives 1 message">>

\* ---------------------------------------------------------------- requests

\* Query parameters are (key, value) pairs in their order of appearance.
Timeout5 == <<"timeout", "5">>
Offset == <<"offset", "851793508">>
OffsetOther == <<"offset", "1">>

Queries ==
  {<< >>, <<Timeout5>>, <<Offset, Timeout5>>, <<Timeout5, Offset>>,
   <<Timeout5, Timeout5>>, <<OffsetOther, Timeout5>>}

\* The parameter lists of up to MaxParams pairs.
Params == {Timeout5, Offset, OffsetOther}
QueryLists == UNION {[1..n -> Params] : n \in 0..MaxParams}
AnyQuery == << >>

\* A request body as Poco::JSON sees it: parse = FALSE is a body the parser
\* rejects; otherwise an object whose members may be absent.
Body(parse, hasChat, chat, hasText, text, hasReply, reply) ==
  [parse |-> parse, has_chat_id |-> hasChat, chat_id |-> chat,
   has_text |-> hasText, text |-> text,
   has_reply_to_message_id |-> hasReply, reply_to_message_id |-> reply]

NoBody == Body(FALSE, FALSE, 0, FALSE, "", FALSE, 0)

Bodies ==
  {NoBody,
   Body(TRUE, TRUE, 104519755, TRUE, "Hi!", FALSE, 0),
   Body(TRUE, TRUE, 104519755, TRUE, "Hi!", TRUE, 2),
   Body(TRUE, TRUE, 104519755, TRUE, "Reply", TRUE, 2),
   Body(TRUE, TRUE, 104519755, TRUE, "Reply", TRUE, 3),
   Body(TRUE, TRUE, 104519755, TRUE, "Reply", FALSE, 0),
   Body(TRUE, TRUE, 1, TRUE, "Hi!", FALSE, 0),
   Body(TRUE, TRUE, 1, TRUE, "Reply", TRUE, 2),
   Body(TRUE, FALSE, 0, TRUE, "Hi!", FALSE, 0),
   Body(TRUE, TRUE, 104519755, FALSE, "", TRUE, 2)}

Request(method, host, path, query, ctype, body) ==
  [method |-> method, host |-> host, path |-> path, query |-> query,
   ctype |-> ctype, body |-> body]

\* ctype = "" is a request without a Content-Type header.
Requests ==
  {Request(m, "", p, q, "", NoBody) :
     m \in {"GET", "POST"}, p \in {"/bot123/getMe", "/bot123/getUpdates"},
     q \in Queries}
  \cup {Request("GET", "example.org", p, << >>, "", NoBody) :
          p \in {"/bot123/getMe", "/bot123/getUpdates"}}
  \cup {Request("POST", "", "/bot123/sendMessage", << >>, "application/json", b) :
          b \in Bodies}
  \cup {Request("POST", "", "/bot123/sendMessage", << >>, c,
                Body(TRUE, TRUE, 104519755, TRUE, t, TRUE, 2)) :
          c \in {"", "text/plain"}, t \in {"Hi!", "Reply"}}
  \cup {Request("GET", "", "/bot123/sendMessage", << >>, "application/json",
                Body(TRUE, TRUE, 104519755, TRUE, "Hi!", FALSE, 0))}

\* The request a client that follows the script sends as request number k
\* (past the script's end: its last request again).
ScriptRequest(sc, k) ==
  LET get(path, query) == Request("GET", "", path, query, "", NoBody)
      send(text, hasReply) ==
        Request("POST", "", "/bot123/sendMessage", << >>, "application/json",
                Body(TRUE, TRUE, 104519755, TRUE, text, hasReply,
                     IF hasReply THEN 2 ELSE 0))
  IN CASE sc = "Single getMe" -> get("/bot123/getMe", << >>)
       [] sc = "getMe error handling" -> get("/bot123/getMe", << >>)
       [] sc = "Single getUpdates and send messages" ->
            IF k = 1 THEN get("/bot123/getUpdates", << >>)
            ELSE IF k = 2 THEN send("Hi!", FALSE)
            ELSE send("Reply", TRUE)
       [] sc = "Handle getUpdates offset" ->
            IF k = 1 THEN get("/bot123/getUpdates", <<Timeout5>>)
            ELSE get("/bot123/getUpdates", <<Timeout5, Offset>>)

\* The requests a client may send as request number k of scenario sc once
\* fails failures are recorded.
Inputs(sc, k, fails) ==
  IF Len(fails) < MaxFails THEN Requests ELSE {ScriptRequest(sc, k)}

\* ----------------------------------------------------------------- matcher

\* Poco::URI of the URI literals the Test Cases compare against.
URI(uri) ==
  CASE uri = "/bot123/getMe" ->
         [host |-> "", path |-> "/bot123/getMe", query |-> << >>]
    [] uri = "/bot123/getUpdates" ->
         [host |-> "", path |-> "/bot123/getUpdates", query |-> << >>]
    [] uri = "/bot123/sendMessage" ->
         [host |-> "", path |-> "/bot123/sendMessage", query |-> << >>]
    [] uri = "/bot123/getUpdates?timeout=5" ->
         [host |-> "", path |-> "/bot123/getUpdates", query |-> <<Timeout5>>]
    [] uri = "/bot123/getUpdates?offset=851793508&timeout=5" ->
         [host |-> "", path |-> "/bot123/getUpdates",
          query |-> <<Offset, Timeout5>>]

\* Byte order of the strings that occur in query parameters.
StrOrder == <<"1", "5", "851793508", "offset", "timeout">>
Rank(s) == CHOOSE i \in 1..Len(StrOrder) : StrOrder[i] = s

\* operator< of std::pair<std::string, std::string>.
PairLess(a, b) ==
  \/ Rank(a[1]) < Rank(b[1])
  \/ a[1] = b[1] /\ Rank(a[2]) < Rank(b[2])

\* Insert pair x into the sorted sequence s.
RECURSIVE Insert(_, _)
Insert(x, s) ==
  IF s = << >> THEN <<x>>
  ELSE IF PairLess(s[1], x) THEN <<s[1]>> \o Insert(x, Tail(s))
  ELSE <<x>> \o s

\* A sort that leaves the vector as it is.
Sort_Unsorted(s) == s

\* std::sort of a vector of pairs.
RECURSIVE Sort(_)
Sort(s) == IF s = << >> THEN << >> ELSE Insert(s[1], Sort(Tail(s)))

\* The outcome of a piece of code: it completes, it throws the
\* CheckFailedException of Fail(msg) after recording msg, or it throws some
\* other std::exception whose what() is msg.
Ok == [kind |-> "ok", msg |-> << >>]
CheckFailed(msg) == [kind |-> "CheckFailedException", msg |-> msg]
Threw(what) == [kind |-> "std::exception", msg |-> <<what>>]

\* a; b  -- b runs only when a completes.
Then(a, b) == IF a.kind = "ok" THEN b ELSE a

ExpectURI(request, uri) ==
  LET req_query == Sort(request.query)
      compare_uri == URI(uri)
      compare_query == Sort(compare_uri.query)
  IN IF request.host # compare_uri.host
       THEN CheckFailed(<<"Invalid Host: expected ", compare_uri.host,
                          ", got ", request.host>>)
     ELSE IF request.path # compare_uri.path
       THEN CheckFailed(<<"Invalid Path: expected ", compare_uri.path,
                          ", got ", request.path>>)
     ELSE IF req_query # compare_query
       THEN CheckFailed(<<"Invalid Query params">>)
     ELSE Ok

\* ExpectMethod with the comparison inverted.
ExpectMethod_Inverted(request, method) ==
  IF request.method = method
    THEN CheckFailed(<<"Invalid method: expected ", method, ", got ",
                       request.method>>)
    ELSE Ok

ExpectMethod(request, method) ==
  IF request.method # method
    THEN CheckFailed(<<"Invalid method: expected ", method, ", got ",
                       request.method>>)
    ELSE Ok

\* request.get("Content-Type") throws Poco::NotFoundException when the header
\* is absent.
checkContentType(request) ==
  IF request.ctype = "" THEN Threw("Not found")
  ELSE IF request.ctype # "application/json"
    THEN CheckFailed(<<"Content-Type header is not set">>)
  ELSE Ok

\* parser.parse and the getValue calls throw on an unparsable body and on an
\* absent chat_id or text.
parseJson(request) ==
  IF ~request.body.parse THEN Threw("JSON Exception")
  ELSE IF ~request.body.has_chat_id THEN Threw("Invalid access: chat_id")
  ELSE IF ~request.body.has_text THEN Threw("Invalid access: text")
  ELSE Ok

\* -------------------------------------------------------------- Test Cases

\* What HandleRequest leaves behind: how it ended and the response it wrote.
\* status 0 is a response nothing was written to.
NoResponse == [status |-> 0, body |-> ""]
Send(status, body) == [res |-> Ok, response |-> [status |-> status, body |-> body]]
Abort(outcome) == [res |-> outcome, response |-> NoResponse]
Run(checks, rest) == IF checks.kind = "ok" THEN rest ELSE Abort(checks)

\* SingleGetMeTestCase and ErrorHandlingTestCase validate the request before
\* they increment Fulfilled; the other two increment first.
ValidatesFirst(sc) == sc \in {"Single getMe", "getMe error handling"}

\* The statements of HandleRequest that precede the increment of Fulfilled.
BeforeIncrement(sc, request) ==
  IF ValidatesFirst(sc)
    THEN Then(ExpectURI(request, "/bot123/getMe"), ExpectMethod(request, "GET"))
    ELSE Ok

SingleGetMe(f, request) ==
  IF f = 1 THEN Send(200, "GetMeJson")
  ELSE Abort(CheckFailed(<<"Unexpected extra request">>))

\* ErrorHandling with the two canned responses in the other order.
ErrorHandling_Swapped(f, request) ==
  IF f = 1 THEN Send(401, "GetMeErrorJson")
  ELSE IF f = 2 THEN Send(500, "Internal server error")
  ELSE Abort(CheckFailed(<<"Unexpected extra request">>))

ErrorHandling(f, request) ==
  IF f = 1 THEN Send(500, "Internal server error")
  ELSE IF f = 2 THEN Send(401, "GetMeErrorJson")
  ELSE Abort(CheckFailed(<<"Unexpected extra request">>))

GetUpdatesAndSendMessages(f, request) ==
  IF f = 1 THEN
    Run(Then(ExpectURI(request, "/bot123/getUpdates"),
             ExpectMethod(request, "GET")),
        Send(200, "GetUpdatesFourMessagesJson"))
  ELSE IF f = 2 THEN
    Run(Then(ExpectURI(request, "/bot123/sendMessage"),
        Then(ExpectMethod(request, "POST"),
        Then(checkContentType(request),
        Then(parseJson(request),
        Then(IF request.body.text # "Hi!"
               THEN CheckFailed(<<"Invalid text in message #1">>) ELSE Ok,
             IF request.body.chat_id # 104519755
               THEN CheckFailed(<<"Invalid chat_id in message #1">>) ELSE Ok))))),
        Send(200, "SendMessageHiJson"))
  ELSE IF f = 3 \/ f = 4 THEN
    Run(Then(ExpectURI(request, "/bot123/sendMessage"),
        Then(ExpectMethod(request, "POST"),
        Then(checkContentType(request),
        Then(parseJson(request),
        Then(IF request.body.text # "Reply"
               THEN CheckFailed(<<"Invalid text in reply message">>) ELSE Ok,
        Then(IF request.body.chat_id # 104519755
               THEN CheckFailed(<<"Invalid chat id in reply message">>) ELSE Ok,
             IF \/ ~request.body.has_reply_to_message_id
                \/ request.body.reply_to_message_id # 2
               THEN CheckFailed(<<"reply_to_message_id field is incorrect">>)
               ELSE Ok)))))),
        Send(200, "SendMessageReplyJson"))
  ELSE Abort(CheckFailed(<<"Unexpected extra request">>))

\* HandleOffset whose second step expects the first step's URI.
HandleOffset_NoOffset(f, request) ==
  IF f = 1 \/ f = 2 THEN
    Run(Then(ExpectURI(request, "/bot123/getUpdates?timeout=5"),
             ExpectMethod(request, "GET")),
        Send(200, IF f = 1 THEN "GetUpdatesTwoMessages"
                  ELSE "GetUpdatesZeroMessages"))
  ELSE IF f = 3 THEN
    Run(Then(ExpectURI(request, "/bot123/getUpdates?offset=851793508&timeout=5"),
             ExpectMethod(request, "GET")),
        Send(200, "GetupdatesOneMessage"))
  ELSE Abort(CheckFailed(<<"Unexpected extra request">>))

HandleOffset(f, request) ==
  IF f = 1 THEN
    Run(Then(ExpectURI(request, "/bot123/getUpdates?timeout=5"),
             ExpectMethod(request, "GET")),
        Send(200, "GetUpdatesTwoMessages"))
  ELSE IF f = 2 THEN
    Run(Then(ExpectURI(request, "/bot123/getUpdates?offset=851793508&timeout=5"),
             ExpectMethod(request, "GET")),
        Send(200, "GetUpdatesZeroMessages"))
  ELSE IF f = 3 THEN
    Run(Then(ExpectURI(request, "/bot123/getUpdates?offset=851793508&timeout=5"),
             ExpectMethod(request, "GET")),
        Send(200, "GetupdatesOneMessage"))
  ELSE Abort(CheckFailed(<<"Unexpected extra request">>))

\* The statements of HandleRequest that follow the increment: the dispatch on
\* the new value f of Fulfilled.
AfterIncrement(sc, f, request) ==
  CASE sc = "Single getMe" -> SingleGetMe(f, request)
    [] sc = "getMe error handling" -> ErrorHandling(f, request)
    [] sc = "Single getUpdates and send messages" ->
         GetUpdatesAndSendMessages(f, request)
    [] sc = "Handle getUpdates offset" -> HandleOffset(f, request)

\* Fails.push_back(message); the throw is the CheckFailed outcome.
\* A Fail that keeps the latest failure only.
Fail_Overwrites(fails, message) == <<message>>

Fail(fails, message) == Append(fails, message)

\* handleRequest without the catch clause for CheckFailedException.
handleRequest_NoCatch(fails, o) ==
  CASE o.res.kind = "ok" ->
         [fails |-> fails, response |-> o.response, leaves |-> "nothing"]
    [] o.res.kind = "CheckFailedException" ->
         [fails |-> Append(fails, o.res.msg), response |-> o.response,
          leaves |-> "CheckFailedException"]
    [] o.res.kind = "std::exception" ->
         [fails |-> Append(fails, o.res.msg), response |-> o.response,
          leaves |-> "CheckFailedException"]

\* handleRequest recording an unexpected exception in the handler on top of
\* an entry of the Test Case.
handleRequest_RecordsTwice(fails, o) ==
  CASE o.res.kind = "ok" ->
         [fails |-> fails, response |-> o.response, leaves |-> "nothing"]
    [] o.res.kind = "CheckFailedException" ->
         [fails |-> Append(fails, o.res.msg),
          response |-> [status |-> 400, body |-> ""], leaves |-> "nothing"]
    [] o.res.kind = "std::exception" ->
         [fails |-> Append(Append(fails, o.res.msg), o.res.msg),
          response |-> o.response, leaves |-> "CheckFailedException"]

\* handleRequest treating every exception as a validation failure.
handleRequest_Swallows(fails, o) ==
  CASE o.res.kind = "ok" ->
         [fails |-> fails, response |-> o.response, leaves |-> "nothing"]
    [] OTHER ->
         [fails |-> Append(fails, o.res.msg),
          response |-> [status |-> 400, body |-> ""], leaves |-> "nothing"]

\* The try/catch of FakeHandler::handleRequest around HandleRequest's outcome
\* o, from the failure list fails that HandleRequest started with:
\*   CheckFailedException  (its message is already recorded by Fail)
\*                         -> 400 with an empty body, nothing leaves;
\*   other std::exception  -> Fail(e.what()), whose CheckFailedException
\*                            leaves the handler before `throw;` is reached.
handleRequest(fails, o) ==
  CASE o.res.kind = "ok" ->
         [fails |-> fails, response |-> o.response, leaves |-> "nothing"]
    [] o.res.kind = "CheckFailedException" ->
         [fails |-> Fail(fails, o.res.msg),
          response |-> [status |-> 400, body |-> ""], leaves |-> "nothing"]
    [] o.res.kind = "std::exception" ->
         [fails |-> Fail(fails, o.res.msg), response |-> o.response,
          leaves |-> "CheckFailedException"]

\* The first loop started one expectation late.
Unsatisfied_SkipsFirst(fulfilled, expectations) ==
  [j \in 1..(IF fulfilled + 1 < Len(expectations)
               THEN Len(expectations) - fulfilled - 1 ELSE 0) |->
     <<"Expectation not satisfied: ", expectations[fulfilled + 1 + j]>>]

\* TestCase::Check's first loop: one line per expectation from index
\* fulfilled (0-based) on.
Unsatisfied(fulfilled, expectations) ==
  [j \in 1..(IF fulfilled < Len(expectations)
               THEN Len(expectations) - fulfilled ELSE 0) |->
     <<"Expectation not satisfied: ", expectations[fulfilled + j]>>]

\* TestCase::Check's second loop: one line per recorded failure.
Errors(fails) == [j \in 1..Len(fails) |-> <<"Error encountered: ", fails[j]>>]

\* Check with `fail = true` missing from the second loop.
Check_FirstLoopOnly(lines, fails) ==
  [fail |-> lines # << >>, report |-> lines \o Errors(fails)]

\* TestCase::Check from the lines of its first loop and the failure list its
\* second loop reads: fail is set by any iteration of either loop, and the
\* runtime_error carries the lines of both.
Check(lines, fails) ==
  [fail |-> (lines # << >> \/ fails # << >>), report |-> lines \o Errors(fails)]

\* ------------------------------------------------------------------- state

VARIABLES
  scenario,      \* the name FakeServer was constructed with
  Expectations,  \* TestCase::Expectations
  Fulfilled,     \* TestCase::Fulfilled
  Fails,         \* TestCase::Fails
  Mutex,         \* TestCase::Mutex: 0 when free, else the thread that owns it
  Server_,       \* FakeServer::Server_ is non-null (the HTTPServer runs)
  pc,            \* per worker thread: its position in handleRequest
  tmp,           \* per worker thread: the value of Fulfilled read by ++
  chk,           \* the caller's position in TestCase::Check and its locals
  result,        \* what Check() threw or returned to the caller, until the
                 \* caller's next call
  accepted,      \* history: requests dispatched to a handler so far
  handled,       \* history: HandleRequest calls that have returned or thrown
  scripted,      \* history: every handled request matched its scripted step
  early,         \* history, per thread: the request validated before the
                 \* increment matched its scripted step
  last,          \* history: the outcome of the latest handled request
  probe          \* the latest application of ExpectURI to two requests

vars ==
  <<scenario, Expectations, Fulfilled, Fails, Mutex, Server_, pc, tmp, chk,
    result, accepted, handled, scripted, early, last, probe>>

testCase == <<scenario, Expectations, Fulfilled, Fails>>
history == <<accepted, handled, scripted, early, last>>

\* Two parameter lists hold the same pairs, each as many times.
SameParams(p, q) ==
  /\ Len(p) = Len(q)
  /\ \A x \in {p[i] : i \in 1..Len(p)} \cup {q[i] : i \in 1..Len(q)} :
       Cardinality({i \in 1..Len(p) : p[i] = x})
         = Cardinality({i \in 1..Len(q) : q[i] = x})

\* The script of each scenario: the request its step k expects.
StepMatches(sc, k, r) ==
  LET get(path, query) ==
        /\ r.method = "GET" /\ r.host = "" /\ r.path = path
        /\ SameParams(r.query, query)
      send(text, reply) ==
        /\ r.method = "POST" /\ r.host = "" /\ r.path = "/bot123/sendMessage"
        /\ r.query = << >> /\ r.ctype = "application/json"
        /\ r.body.parse /\ r.body.has_chat_id /\ r.body.chat_id = 104519755
        /\ r.body.has_text /\ r.body.text = text
        /\ reply => r.body.has_reply_to_message_id
                    /\ r.body.reply_to_message_id = 2
  IN CASE sc = "Single getMe" -> k = 1 /\ get("/bot123/getMe", << >>)
       [] sc = "getMe error handling" ->
            k \in 1..2 /\ get("/bot123/getMe", << >>)
       [] sc = "Single getUpdates and send messages" ->
            \/ k = 1 /\ get("/bot123/getUpdates", << >>)
            \/ k = 2 /\ send("Hi!", FALSE)
            \/ k \in 3..4 /\ send("Reply", TRUE)
       [] sc = "Handle getUpdates offset" ->
            \/ k = 1 /\ get("/bot123/getUpdates", <<Timeout5>>)
            \/ k \in 2..3 /\ get("/bot123/getUpdates", <<Offset, Timeout5>>)

NoResult ==
  [done |-> FALSE, fail |-> FALSE, report |-> << >>, fulfilled |-> 0,
   fails |-> << >>, handled |-> 0, accepted |-> 0]

ChkIdle == [pc |-> "idle", fulfilled |-> 0, lines |-> << >>, handled |-> 0,
            accepted |-> 0]

NoProbe ==
  [done |-> FALSE, a |-> AnyQuery, b |-> AnyQuery, host |-> "", path |-> "",
   uri |-> "", ra |-> Ok, rb |-> Ok]

NoLast ==
  [n |-> 0, step |-> 0, kind |-> "none", status |-> 0, body |-> "",
   leaves |-> "nothing", matched |-> FALSE,
   method |-> "", path |-> "", ctype |-> ""]

\* FakeServer::FakeServer: the Test Case of the scenario name, not started.
Init ==
  /\ scenario \in Scenarios
  /\ Expectations = ExpectationsOf(scenario)
  /\ Fulfilled = 0
  /\ Fails = << >>
  /\ Mutex = 0
  /\ Server_ = FALSE
  /\ pc = [t \in Threads |-> "idle"]
  /\ tmp = [t \in Threads |-> 0]
  /\ chk = ChkIdle
  /\ result = NoResult
  /\ accepted = 0
  /\ handled = 0
  /\ scripted = TRUE
  /\ early = [t \in Threads |-> FALSE]
  /\ last = NoLast
  /\ probe = NoProbe

\* ----------------------------------------------------------------- actions

\* FakeServer::Start: a new socket and HTTPServer replace whatever was there.
Start ==
  /\ chk.pc = "idle"
  /\ Server_' = TRUE
  /\ result' = NoResult
  /\ UNCHANGED <<probe, testCase, Mutex, pc, tmp, chk, history>>

\* The effect of FakeServer::Stop on Server_: Server_->stop() ends the accept
\* loop and the pointers are reset. TCPServer::stop() does not wait for the
\* connections that are being served.
StopServer == Server_' = FALSE

\* A Stop that also resets the Test Case.
Stop_ResetsTestCase ==
  /\ chk.pc = "idle"
  /\ Server_' = FALSE
  /\ result' = NoResult
  /\ Fulfilled' = 0
  /\ Fails' = << >>
  /\ UNCHANGED <<probe, scenario, Expectations, Mutex, pc, tmp, chk, history>>

\* FakeServer::Stop (also run by ~FakeServer).
Stop ==
  /\ chk.pc = "idle"
  /\ StopServer
  /\ result' = NoResult
  /\ UNCHANGED <<probe, testCase, Mutex, pc, tmp, chk, history>>

\* FakeServer::StopAndCheckExpectations up to the end of Check's first loop,
\* which reads Fulfilled.
StopAndCheckExpectations ==
  /\ chk.pc = "idle"
  /\ StopServer
  /\ chk' = [pc |-> "errors", fulfilled |-> Fulfilled,
             lines |-> Unsatisfied(Fulfilled, Expectations),
             handled |-> handled, accepted |-> accepted]
  /\ result' = NoResult
  /\ UNCHANGED <<probe, testCase, Mutex, pc, tmp, history>>

\* Check's second loop, which reads Fails, and its throw.
CheckErrors ==
  /\ chk.pc = "errors"
  /\ result' = [done |-> TRUE,
                fail |-> Check(chk.lines, Fails).fail,
                report |-> Check(chk.lines, Fails).report,
                fulfilled |-> chk.fulfilled, fails |-> Fails,
                handled |-> chk.handled, accepted |-> chk.accepted]
  /\ chk' = ChkIdle
  /\ UNCHANGED <<probe, testCase, Mutex, Server_, pc, tmp, history>>

\* The running server hands a new request to a worker thread, which creates a
\* FakeHandler and calls handleRequest.
Accept(t) ==
  /\ Server_
  /\ pc[t] = "idle"
  /\ accepted < Len(Expectations) + MaxExtra
  /\ pc' = [pc EXCEPT ![t] = "waiting"]
  /\ accepted' = accepted + 1
  /\ UNCHANGED <<probe, testCase, Mutex, Server_, tmp, chk, result, handled, scripted,
                 early, last>>

\* A lock that is taken without waiting for its owner.
MutexFree_Unchecked(m) == TRUE

\* std::unique_lock's constructor returns once the mutex is free.
MutexFree(m) == m = 0

Lock(t) ==
  /\ pc[t] = "waiting"
  /\ MutexFree(Mutex)
  /\ Mutex' = t
  /\ pc' = [pc EXCEPT ![t] = "locked"]
  /\ UNCHANGED <<probe, testCase, Server_, tmp, chk, result, history>>

\* Stands for the request in the part of HandleRequest that does not read it.
AnyRequest == ScriptRequest(scenario, 1)

\* An end of handleRequest that keeps the mutex when an exception leaves it.
Finish_LeaksLock(t, o, step, matched, r) ==
  LET h == handleRequest(Fails, o)
  IN /\ Fails' = h.fails
     /\ Mutex' = IF h.leaves = "nothing" THEN 0 ELSE Mutex
     /\ pc' = [pc EXCEPT ![t] = "idle"]
     /\ handled' = handled + 1
     /\ scripted' = (scripted /\ matched)
     /\ last' = [n |-> handled + 1, step |-> step, kind |-> o.res.kind,
                 status |-> h.response.status, body |-> h.response.body,
                 leaves |-> h.leaves, matched |-> matched,
                 method |-> r.method, path |-> r.path, ctype |-> r.ctype]

\* The end of handleRequest for thread t: HandleRequest ended as o, the catch
\* clauses run, the guard releases the mutex.
Finish(t, o, step, matched, r) ==
  LET h == handleRequest(Fails, o)
  IN /\ Fails' = h.fails
     /\ Mutex' = 0
     /\ pc' = [pc EXCEPT ![t] = "idle"]
     /\ handled' = handled + 1
     /\ scripted' = (scripted /\ matched)
     /\ last' = [n |-> handled + 1, step |-> step, kind |-> o.res.kind,
                 status |-> h.response.status, body |-> h.response.body,
                 leaves |-> h.leaves, matched |-> matched,
                 method |-> r.method, path |-> r.path, ctype |-> r.ctype]

\* HandleRequest up to the read of Fulfilled by the increment. The two
\* scenarios that validate first read the request here.
HandleRequestBegin(t) ==
  /\ pc[t] = "locked"
  /\ \E r \in (IF ValidatesFirst(scenario) THEN Inputs(scenario, Fulfilled + 1, Fails) ELSE {AnyRequest}) :
       LET pre == BeforeIncrement(scenario, r)
           m == StepMatches(scenario, handled + 1, r)
       IN IF pre.kind = "ok"
            THEN /\ tmp' = [tmp EXCEPT ![t] = Fulfilled]
                 /\ early' = [early EXCEPT ![t] = m]
                 /\ pc' = [pc EXCEPT ![t] = "incr"]
                 /\ UNCHANGED <<Fulfilled, Fails, Mutex, handled, scripted, last>>
            ELSE /\ Finish(t, Abort(pre), 0, m, r)
                 /\ UNCHANGED <<Fulfilled, tmp, early>>
  /\ UNCHANGED <<probe, scenario, Expectations, Server_, chk, result, accepted>>

\* The write of the increment: Fulfilled becomes the value read plus one.
HandleRequestIncrement(t) ==
  /\ pc[t] = "incr"
  /\ Fulfilled' = tmp[t] + 1
  /\ pc' = [pc EXCEPT ![t] = "dispatch"]
  /\ UNCHANGED <<probe, scenario, Expectations, Fails, Mutex, Server_, tmp, chk,
                 result, history>>

\* The rest of HandleRequest: the dispatch on Fulfilled. The two scenarios
\* that increment first read the request here. The thread's locals end with
\* the call.
HandleRequestEnd(t) ==
  /\ pc[t] = "dispatch"
  /\ \E r \in (IF ValidatesFirst(scenario) THEN {AnyRequest} ELSE Inputs(scenario, Fulfilled, Fails)) :
       LET m == IF ValidatesFirst(scenario) THEN early[t]
                ELSE StepMatches(scenario, handled + 1, r)
       IN Finish(t, AfterIncrement(scenario, Fulfilled, r), Fulfilled, m, r)
  /\ tmp' = [tmp EXCEPT ![t] = 0]
  /\ early' = [early EXCEPT ![t] = FALSE]
  /\ UNCHANGED <<probe, scenario, Expectations, Fulfilled, Server_, chk, result,
                 accepted>>

Next ==
  \/ Start
  \/ Stop
  \/ StopAndCheckExpectations
  \/ CheckErrors
  \/ \E t \in Threads : Accept(t)
  \/ \E t \in Threads : Lock(t)
  \/ \E t \in Threads : HandleRequestBegin(t)
  \/ \E t \in Threads : HandleRequestIncrement(t)
  \/ \E t \in Threads : HandleRequestEnd(t)

Spec == Init /\ [][Next]_vars

\* Fair scheduling of the handler threads: a thread that can take the free
\* mutex, or go on inside HandleRequest, eventually does. Nothing obliges a
\* client to send a request or the test to start or stop the server.
Fairness ==
  \A t \in Threads :
    /\ WF_vars(Lock(t))
    /\ WF_vars(HandleRequestBegin(t))
    /\ WF_vars(HandleRequestIncrement(t))
    /\ WF_vars(HandleRequestEnd(t))

\* The server serving requests, without Check(): Check() takes no lock and
\* changes neither the mutex nor a handler thread.
Serve ==
  \/ Start
  \/ Stop
  \/ \E t \in Threads : Accept(t)
  \/ \E t \in Threads : Lock(t)
  \/ \E t \in Threads : HandleRequestBegin(t)
  \/ \E t \in Threads : HandleRequestIncrement(t)
  \/ \E t \in Threads : HandleRequestEnd(t)

LiveSpec == Init /\ [][Serve]_vars /\ Fairness

\* ExpectURI applied, once, to two requests a and b with the same host and
\* path and to the same expected uri.
ApplyExpectURI ==
  /\ ~probe.done
  /\ \E host \in {"", "example.org"},
        path \in {"/bot123/getMe", "/bot123/getUpdates"},
        a \in QueryLists, b \in QueryLists,
        uri \in {"/bot123/getMe", "/bot123/getUpdates?timeout=5",
                 "/bot123/getUpdates?offset=851793508&timeout=5"} :
       probe' = [done |-> TRUE, a |-> a, b |-> b, host |-> host,
                 path |-> path, uri |-> uri,
                 ra |-> ExpectURI(Request("GET", host, path, a, "", NoBody), uri),
                 rb |-> ExpectURI(Request("GET", host, path, b, "", NoBody), uri)]
  /\ UNCHANGED <<testCase, Mutex, Server_, pc, tmp, chk, result, history>>

InitMatcher == Init /\ scenario = "Handle getUpdates offset"

SpecMatcher == InitMatcher /\ [][ApplyExpectURI]_vars

\* ------------------------------------------------------------------ claims

N == Len(Expectations)

\* The threads inside TestCase::HandleRequest.
Inside == {t \in Threads : pc[t] \in {"locked", "incr", "dispatch"}}

\* The status and fixture the script of scenario sc answers step k with.
Canned(sc, k) ==
  CASE sc = "Single getMe" -> [status |-> 200, body |-> "GetMeJson"]
    [] sc = "getMe error handling" ->
         IF k = 1 THEN [status |-> 500, body |-> "Internal server error"]
         ELSE [status |-> 401, body |-> "GetMeErrorJson"]
    [] sc = "Single getUpdates and send messages" ->
         IF k = 1 THEN [status |-> 200, body |-> "GetUpdatesFourMessagesJson"]
         ELSE IF k = 2 THEN [status |-> 200, body |-> "SendMessageHiJson"]
         ELSE [status |-> 200, body |-> "SendMessageReplyJson"]
    [] sc = "Handle getUpdates offset" ->
         IF k = 1 THEN [status |-> 200, body |-> "GetUpdatesTwoMessages"]
         ELSE IF k = 2 THEN [status |-> 200, body |-> "GetUpdatesZeroMessages"]
         ELSE [status |-> 200, body |-> "GetupdatesOneMessage"]

\* The lines of a report that start with prefix.
LinesOf(report, prefix) == SelectSeq(report, LAMBDA l : l[1] = prefix)

\* Every request accepted so far was handled before Check() began, and they
\* were exactly the N scripted requests, in order.
ScriptDone ==
  /\ result.done /\ scripted
  /\ result.accepted = N /\ result.handled = N

\* C1: in each of the four scenarios, while the requests handled are the
\* scripted ones in order, every request gets its step's canned status and
\* fixture and the failure list stays empty; and a Check() that begins after
\* exactly the N scripted requests were handled reports no failure.
C1_ScriptedSequencePasses ==
  /\ (scripted /\ last.n >= 1) =>
       /\ last.kind = "ok" /\ last.leaves = "nothing"
       /\ [status |-> last.status, body |-> last.body] = Canned(scenario, last.n)
       /\ Fails = << >>
  /\ ScriptDone => ~result.fail /\ result.report = << >>

C1_Witness ==
  /\ scenario = "Single getUpdates and send messages"
  /\ ScriptDone /\ ~result.fail /\ last.n = 4
  /\ last.body = "SendMessageReplyJson"

\* C2: after any K handled requests (none being handled) the fulfillment
\* counter equals K.
C2_CounterCountsHandled == Inside = {} => Fulfilled = handled

\* C3: a request handled after N others is answered 400 and records
\* "Unexpected extra request", and a Check() begun after it fails with that
\* message in its report.
C3_ExtraRequestRejected ==
  /\ last.n > N =>
       /\ last.status = 400
       /\ Fails # << >>
       /\ Fails[Len(Fails)] = <<"Unexpected extra request">>
  /\ (result.done /\ result.handled > N) =>
       /\ result.fail
       /\ \E i \in 1..Len(result.report) :
            result.report[i] =
              <<"Error encountered: ", <<"Unexpected extra request">> >>

\* C4: a Check() that reads counter k < N fails, and its report holds exactly
\* N - k "Expectation not satisfied" lines, naming in order the descriptions
\* of expectations k..N-1 (0-based), so none for an index below k.
C4_UnsatisfiedNamed ==
  (result.done /\ result.fulfilled < N) =>
    LET k == result.fulfilled
        U == LinesOf(result.report, "Expectation not satisfied: ")
    IN /\ result.fail
       /\ Len(U) = N - k
       /\ \A j \in 1..(N - k) : U[j][2] = Expectations[k + j]

C4_Witness ==
  /\ scenario = "Single getUpdates and send messages"
  /\ result.done /\ result.fulfilled = 2 /\ result.fail
  /\ Len(result.report) >= 2

\* C5: at most one thread is inside the handler's critical section, it is
\* the owner of the mutex, the value of Fulfilled it read for the increment
\* is still the current one when it writes (no increment is lost or
\* interleaved), and where every request increments, the counter equals the
\* number of requests handled.
C5_HandleRequestSerialized ==
  /\ Cardinality(Inside) <= 1
  /\ \A t \in Inside : Mutex = t
  /\ Inside = {} => Mutex = 0
  /\ \A t \in Threads : pc[t] = "incr" => tmp[t] = Fulfilled
  /\ \A t \in Threads : pc[t] = "dispatch" => Fulfilled = tmp[t] + 1
  /\ ~ValidatesFirst(scenario) =>
       Fulfilled = handled + Cardinality({t \in Threads : pc[t] = "dispatch"})
  /\ Len(Fails) <= handled
  /\ accepted = handled + Cardinality({t \in Threads : pc[t] # "idle"})

C5_Witness ==
  \E t, u \in Threads :
    /\ pc[t] = "incr" /\ pc[u] = "waiting"
    /\ Fulfilled >= 1 /\ Fails # << >>

\* C6: Check() fails exactly when the counter it read is below the number
\* of expectations or the failure list it read is non-empty, whatever the
\* counter; the report's "Error encountered" lines are the recorded
\* failures, one each, in recording order.
C6_CheckFailsIff ==
  result.done =>
    LET E == LinesOf(result.report, "Error encountered: ")
    IN /\ result.fail <=> (result.fulfilled < N \/ result.fails # << >>)
       /\ Len(E) = Len(result.fails)
       /\ \A j \in 1..Len(E) : E[j][2] = result.fails[j]

C6_Witness ==
  /\ result.done /\ result.fail
  /\ result.fulfilled >= N
  /\ Len(result.fails) >= 2
  /\ result.fails[1] # result.fails[2]

\* C7: a request whose HandleRequest raised a validation failure is
\* answered with 400 and an empty body, the failure does not leave the
\* handler, and the mutex is not left held, so later requests are handled.
C7_ValidationFailureIs400 ==
  last.kind = "CheckFailedException" =>
    /\ last.status = 400 /\ last.body = ""
    /\ last.leaves = "nothing"
    /\ Inside = {} => Mutex = 0

C7_Witness ==
  /\ last.kind = "CheckFailedException" /\ last.status = 400
  /\ last.n >= 2 /\ Len(Fails) >= 2
  /\ Fails[1] # <<"Unexpected extra request">>

\* C8: while Check() runs, no HandleRequest call is in progress.
C8_CheckQuiescent == chk.pc = "errors" => Inside = {}

\* C9: every Stop() leaves the server stopped and the Test Case's counter,
\* failure list and expectations as they were; a Stop() of a server that is
\* not running changes nothing of the server, the Test Case or the handler
\* threads (so a second Stop() in a row changes nothing).
C9_StopIdempotent ==
  [][Stop =>
       /\ ~Server_'
       /\ UNCHANGED <<testCase, Mutex, pc, tmp, chk, history>>
       /\ ~Server_ => UNCHANGED <<Server_, testCase, Mutex, pc, tmp, chk, history>>]_vars

C9_Witness ==
  /\ ~Server_ /\ ~result.done /\ chk.pc = "idle"
  /\ Fulfilled >= 1 /\ Fails # << >>

\* C10: in "Handle getUpdates offset", step 1 accepts exactly
\* GET /bot123/getUpdates with query {timeout=5} and steps 2 and 3 exactly
\* that path with query {offset=851793508, timeout=5}; an accepted step
\* returns 200 with the two-, zero- and one-message fixture; any other
\* request at these steps gets 400 and a recorded failure; Check() passes
\* after these three accepted requests.
C10_OffsetScript ==
  scenario = "Handle getUpdates offset" =>
    /\ last.step \in 1..3 =>
         /\ last.kind = "ok" <=> last.matched
         /\ last.matched =>
              /\ last.status = 200
              /\ last.body = Canned(scenario, last.step).body
         /\ ~last.matched =>
              /\ last.status = 400 /\ last.body = ""
              /\ Fails # << >>
    /\ ScriptDone => ~result.fail

C10_Witness ==
  /\ scenario = "Handle getUpdates offset"
  /\ ScriptDone /\ ~result.fail /\ Fulfilled = 3
  /\ last.body = "GetupdatesOneMessage"
\* C11: in "getMe error handling" the first request that passes validation
\* is answered 500 with the plain-text error, the second 401 with the
\* structured-error fixture and a third 400 as an extra request; a Check()
\* begun after exactly the two scripted requests passes, one that reads the
\* counter at 1 fails, and one begun after three such requests fails.
C11_ErrorHandlingScript ==
  scenario = "getMe error handling" =>
    /\ last.step = 1 =>
         last.status = 500 /\ last.body = "Internal server error"
    /\ last.step = 2 =>
         last.status = 401 /\ last.body = "GetMeErrorJson"
    /\ last.step >= 3 =>
         /\ last.status = 400 /\ last.body = ""
         /\ Fails[Len(Fails)] = <<"Unexpected extra request">>
    /\ ScriptDone => ~result.fail
    /\ (result.done /\ result.fulfilled = 1) => result.fail
    /\ (result.done /\ result.fulfilled = 3 /\ result.handled >= 3) =>
         result.fail

C11_Witness ==
  /\ scenario = "getMe error handling"
  /\ ScriptDone /\ ~result.fail
  /\ last.step = 2 /\ last.status = 401
\* C12: two requests with the same host and path whose query pairs are
\* permutations of each other get the same outcome from ExpectURI against
\* the same expected URI; a request is accepted exactly when its host and
\* path equal the expected ones and its query holds the same pairs, each
\* as many times (a duplicated pair is a distinct entry).
C12_QueryOrderIrrelevant ==
  probe.done =>
    LET U == URI(probe.uri)
    IN /\ SameParams(probe.a, probe.b) => probe.ra = probe.rb
       /\ probe.ra.kind = "ok" <=>
            /\ probe.host = U.host /\ probe.path = U.path
            /\ SameParams(probe.a, U.query)

C12_Witness ==
  /\ probe.done /\ probe.a # probe.b /\ SameParams(probe.a, probe.b)
  /\ Len(probe.a) = 2 /\ probe.ra.kind = "ok" /\ probe.rb.kind = "ok"
\* C13: whenever Check() passes, the counter it read equals the number of
\* expectations; and whenever no request is being handled, a counter above
\* that number comes with a non-empty failure list.
C13_PassMeansCounterIsN ==
  /\ (result.done /\ ~result.fail) => result.fulfilled = N
  /\ (Inside = {} /\ Fulfilled > N) => Fails # << >>
\* The last handled request was a POST to /bot123/sendMessage that arrived
\* in one of the send-message steps (2-4) of "Single getUpdates and send
\* messages", so its evaluation reached checkContentType.
InSendStep ==
  /\ scenario = "Single getUpdates and send messages"
  /\ last.step \in 2..4
  /\ last.method = "POST" /\ last.path = "/bot123/sendMessage"

\* C14: in the send-message steps, a request whose Content-Type header is
\* absent or is not application/json is an expectation-validation failure:
\* it is answered with HTTP 400 and nothing propagates out of the handler.
C14_ContentTypeIs400 ==
  (InSendStep /\ last.ctype # "application/json") =>
    /\ last.kind = "CheckFailedException"
    /\ last.status = 400
    /\ last.leaves = "nothing"
\* C15: a request whose HandleRequest ends in an exception that is not a
\* CheckFailedException appends exactly one entry to the failure list, gets
\* no response written (no 400), and a failure leaves the handler; the
\* server and the lock are as for any finished request; and a Check() whose
\* second loop runs after it fails and reports that entry.
C15_UnexpectedFailurePropagates ==
  [][/\ (handled' = handled + 1 /\ last'.kind = "std::exception") =>
          /\ Len(Fails') = Len(Fails) + 1
          /\ SubSeq(Fails', 1, Len(Fails)) = Fails
          /\ last'.status = 0 /\ last'.body = ""
          /\ last'.leaves = "CheckFailedException"
          /\ Server_' = Server_ /\ Mutex' = 0
     /\ (chk.pc = "errors" /\ chk'.pc = "idle" /\ last.kind = "std::exception") =>
          /\ result'.done /\ result'.fail
          /\ result'.report[Len(result'.report)]
               = <<"Error encountered: ", Fails[Len(Fails)]>>
    ]_vars

C15_Witness ==
  /\ last.kind = "std::exception" /\ last.leaves = "CheckFailedException"
  /\ InSendStep /\ last.ctype = "application/json"
  /\ result.done /\ result.fail /\ result.handled = last.n
  /\ result.fails # << >>
  /\ result.fails[Len(result.fails)] = <<"JSON Exception">>
\* C16: handling one request appends at most one entry to the failure
\* list, nothing but the end of a request's handling appends to it, and
\* after K handled requests the list has at most K entries.
C16_RecordedOnce ==
  [][/\ Len(Fails') <= Len(Fails) + 1
     /\ Fails' # Fails => handled' = handled + 1
     /\ Len(Fails') <= handled'
    ]_vars

C16_Witness ==
  /\ Inside = {} /\ handled >= 3
  /\ Len(Fails) = 2
  /\ Fails[1] = <<"JSON Exception">>
  /\ Fails[2] = <<"Unexpected extra request">>
  /\ last.kind = "CheckFailedException"
\* C17: the lifecycle is Created -> Running -> Stopped. Two consequences:
\* while the server is not running no step changes the Test Case's counter
\* or failure list, and a server that becomes running has not accepted a
\* request before (it is started once).
C17_Lifecycle ==
  [][/\ ~Server_ => UNCHANGED <<Fulfilled, Fails>>
     /\ (~Server_ /\ Server_') => accepted = 0
    ]_vars
\* C18: the lock is free whenever no request is inside the handler, and
\* under fair scheduling every request that waits for the lock or holds it
\* eventually finishes its handling (a waiting request finishes only by
\* taking the lock first).
C18_NoRequestWaitsForever ==
  /\ [](Inside = {} => Mutex = 0)
  /\ \A t \in Threads : (pc[t] # "idle") ~> (pc[t] = "idle")

C18_Witness ==
  \E t \in Threads :
    /\ pc[t] = "waiting"
    /\ Mutex # 0 /\ Mutex # t
    /\ last.leaves = "CheckFailedException"
\* C19: every step leaves the failure list as it was or longer with its old
\* entries in place, and never lowers the counter; and a Check() whose second
\* loop finds a recorded failure fails. So from the first recorded failure
\* on, whatever requests follow, no Check() passes.
C19_FailuresSticky ==
  [][/\ Len(Fails') >= Len(Fails)
     /\ SubSeq(Fails', 1, Len(Fails)) = Fails
     /\ Fulfilled' >= Fulfilled
     /\ (chk.pc = "errors" /\ chk'.pc = "idle" /\ Fails # << >>) =>
          (result'.done /\ result'.fail /\ result'.fails = Fails)
    ]_vars

\* The first request of the offset scenario failed, the next one was the
\* correct second step, answered normally, and Check() failed.
C19_Witness ==
  /\ scenario = "Handle getUpdates offset"
  /\ Len(Fails) = 1
  /\ last.kind = "ok" /\ last.step = 2 /\ last.n = 2
  /\ result.done /\ result.fail
  /\ result.fulfilled = 2 /\ result.fails = Fails
  /\ result.handled = 2
====
